---- MODULE Spec2Model ----
(***************************************************************************)
(* Model of all_ctime.py: the batch renamer that gives media files the     *)
(* name YYYY.MM.DD.HH.MM.SS_name.ext.  File names are sequences of         *)
(* one-character strings, so that slicing, splitext, the regular           *)
(* expressions and the collision counter are computed as the script        *)
(* computes them.                                                          *)
(***************************************************************************)
EXTENDS Integers, Sequences, FiniteSets, TLC

(***************************************************************************)
(* Characters and strings                                                  *)
(***************************************************************************)
\* Python's None for a name or a date string: no name and no resolved date is
\* ever empty, and the script tests dates by truthiness
None == <<>>

UpperCase == <<"A","B","C","D","E","F","G","H","I","J","K","L","M","N","O","P","Q","R","S","T","U","V","W","X","Y","Z">>
LowerCase == <<"a","b","c","d","e","f","g","h","i","j","k","l","m","n","o","p","q","r","s","t","u","v","w","x","y","z">>
DigitChars == <<"0","1","2","3","4","5","6","7","8","9">>

\* The characters '\x00', '\x0b', '\x1c', '\x1d', '\x1e' and '\x1f'
NUL == "NUL"
VT == "VT"
FS == "FS"
GS == "GS"
RS == "RS"
US == "US"

\* the characters str.strip() and the class \s take for white space
WhiteSpace == {"\t", "\n", VT, "\f", "\r", FS, GS, RS, US, " "}

\* The characters of the modelled names in code-point order (Python compares
\* strings by code point).
CodePointOrder == <<NUL,"\t","\n",VT,"\f","\r",FS,GS,RS,US," ","&","(",")","+",",","-",".","0","1","2","3","4","5","6","7","8","9","A","B","C","D","E","F","G","H","I","J","K","L","M","N","O","P","Q","R","S","T","U","V","W","X","Y","Z","[","]","_","a","b","c","d","e","f","g","h","i","j","k","l","m","n","o","p","q","r","s","t","u","v","w","x","y","z">>

Ord(c) == CHOOSE i \in 1..Len(CodePointOrder) : CodePointOrder[i] = c

IsDigit(c) == c \in {"0","1","2","3","4","5","6","7","8","9"}

IsUpper(c) == c \in {"A","B","C","D","E","F","G","H","I","J","K","L","M","N","O","P","Q","R","S","T","U","V","W","X","Y","Z"}

\* str.lower() on one character
LowerChar(c) == IF IsUpper(c) THEN LowerCase[CHOOSE i \in 1..26 : UpperCase[i] = c] ELSE c

\* str.lower()
Lower(s) == [i \in 1..Len(s) |-> LowerChar(s[i])]

\* s[n:] for n >= 0
DropFirst(s, n) == IF n >= Len(s) THEN <<>> ELSE SubSeq(s, n + 1, Len(s))

\* s[:n] for n >= 0
TakeFirst(s, n) == IF n >= Len(s) THEN s ELSE SubSeq(s, 1, n)

\* s.startswith(p)
StartsWith(s, p) == Len(s) >= Len(p) /\ SubSeq(s, 1, Len(p)) = p

\* s.endswith(p)
EndsWith(s, p) == Len(s) >= Len(p) /\ SubSeq(s, Len(s) - Len(p) + 1, Len(s)) = p

\* p in s (substring test)
Contains(s, p) == \E i \in 0..(Len(s) - Len(p)) : SubSeq(s, i + 1, i + Len(p)) = p

\* s.rfind(c) as a 1-based position, 0 when c does not occur
RFind(s, c) == IF \E i \in 1..Len(s) : s[i] = c
               THEN CHOOSE i \in 1..Len(s) : s[i] = c /\ \A j \in (i+1)..Len(s) : s[j] # c
               ELSE 0

\* re.sub(r'[...]', '', s): delete every character of the class
RemoveChars(s, class) == SelectSeq(s, LAMBDA c : c \notin class)

\* re.sub(r'^c+', '', s): delete the leading run of character c
RECURSIVE StripLeading(_, _)
StripLeading(s, c) == IF s # <<>> /\ s[1] = c THEN StripLeading(Tail(s), c) ELSE s

\* str(n) for n >= 0
RECURSIVE IntToStr(_)
IntToStr(n) == IF n < 10 THEN <<DigitChars[n + 1]>>
               ELSE IntToStr(n \div 10) \o <<DigitChars[(n % 10) + 1]>>

\* a < b for Python strings: decided at the first position where they
\* differ, else by length
StrLess(a, b) ==
    LET n == IF Len(a) < Len(b) THEN Len(a) ELSE Len(b)
        differ == { i \in 1..n : a[i] # b[i] }
    IN  IF differ = {} THEN Len(a) < Len(b)
        ELSE LET first == CHOOSE i \in differ : \A j \in differ : i <= j
             IN  Ord(a[first]) < Ord(b[first])

\* os.path.splitext on a name without directory separators
SplitExt(p) ==
    LET dotIndex == RFind(p, ".")
    IN  IF dotIndex > 0 /\ \E k \in 1..(dotIndex - 1) : p[k] # "."
        THEN [root |-> SubSeq(p, 1, dotIndex - 1), ext |-> SubSeq(p, dotIndex, Len(p))]
        ELSE [root |-> p, ext |-> <<>>]

(***************************************************************************)
(* Configuration                                                           *)
(***************************************************************************)
ExtensionList == {<<"3","g","2">>,<<"3","g","p">>,<<"a","s","f">>,<<"a","v","i">>,<<"b","m","p">>,<<"d","i","v","x">>,<<"f","l","v">>,<<"g","i","f">>,<<"j","f","i","f">>,<<"j","p","g">>,<<"j","p","e","g">>,<<"m","1","v">>,<<"m","o","v">>,<<"m","p","4">>,<<"m","p","e","g">>,<<"m","p","e">>,<<"m","p","g">>,<<"p","n","g">>,<<"r","a","m">>,<<"r","m">>,<<"t","s">>,<<"v","i","v">>,<<"w","e","b","m">>,<<"w","e","b","p">>,<<"w","m","v">>}

\* EXTENSIONS.search(name): a dot and a listed extension, any case, at the
\* end of the name ($ also matches before one final newline)
EXTENSIONS(name) ==
    LET AtEnd(s) == LET dot == RFind(s, ".")
                    IN  dot > 0 /\ Lower(SubSeq(s, dot + 1, Len(s))) \in ExtensionList
    IN  \/ AtEnd(name)
        \/ name # <<>> /\ name[Len(name)] = "\n" /\ AtEnd(SubSeq(name, 1, Len(name) - 1))

DATE_STAMP_LENGTH == 19

\* STANDALONE_DATE_STAMP_REGEX.match(name): ^\d{4}\.\d{2}\.\d{2}\.\d{2}\.\d{2}\.\d{2}
STANDALONE_DATE_STAMP_REGEX(name) ==
    /\ Len(name) >= DATE_STAMP_LENGTH
    /\ \A i \in 1..DATE_STAMP_LENGTH :
          IF i \in {5, 8, 11, 14, 17} THEN name[i] = "." ELSE IsDigit(name[i])


\* the bound of the collision counter ("if counter > 100")
MaxAttempts == 100

BracketChars == {"[", "]", "(", ")"}

\* the class [\s,+&]
SpaceCommaPlusAmp == WhiteSpace \cup {",", "+", "&"}

str_untitled == <<"u","n","t","i","t","l","e","d">>
str_untitled_file == <<"u","n","t","i","t","l","e","d","_","f","i","l","e">>
str_recovered == <<"r","e","c","o","v","e","r","e","d">>
str_jpeg == <<".","j","p","e","g">>
str_jpg == <<".","j","p","g">>

(***************************************************************************)
(* Name reconciliation (the body of the scan loop, lines 260-341)          *)
(***************************************************************************)
\* temp_name[DATE_STAMP_LENGTH:] and the removal of one leading underscore
StripOneStamp(temp_name) ==
    LET rest == DropFirst(temp_name, DATE_STAMP_LENGTH)
    IN  IF StartsWith(rest, <<"_">>) THEN Tail(rest) ELSE rest

\* StripLoop as "while a leading stamp is there", without the bound of two
RECURSIVE StripLoop_NoBound(_, _, _)
StripLoop_NoBound(temp_name, i_strip, stripped_count) ==
    IF STANDALONE_DATE_STAMP_REGEX(temp_name)
    THEN StripLoop_NoBound(StripOneStamp(temp_name), i_strip + 1, stripped_count + 1)
    ELSE [temp_name |-> temp_name, stripped_count |-> stripped_count]

\* for i_strip in range(2): strip a leading stamp while one is there
RECURSIVE StripLoop(_, _, _)
StripLoop(temp_name, i_strip, stripped_count) ==
    IF i_strip < 2 /\ STANDALONE_DATE_STAMP_REGEX(temp_name)
    THEN StripLoop(StripOneStamp(temp_name), i_strip + 1, stripped_count + 1)
    ELSE [temp_name |-> temp_name, stripped_count |-> stripped_count]

\* the check made on the remainder after stripping: "recovered" prefix for
\* an extension-only remainder, invalid when the remainder or its base is empty
AfterStrip(filename_to_process) ==
    LET temp_base == SplitExt(filename_to_process).root
    IN  IF temp_base = <<>> /\ StartsWith(filename_to_process, <<".">>)
        THEN [valid |-> TRUE, name |-> str_recovered \o filename_to_process]
        ELSE IF filename_to_process = <<>> \/ temp_base = <<>>
        THEN [valid |-> FALSE, name |-> filename_to_process]
        ELSE [valid |-> TRUE, name |-> filename_to_process]

\* StampDecision without the skip of a correct leading stamp: the name goes
\* on to normalization as it is
StampDecision_NoCorrectSkip(original_basename, file_date_str, force) ==
    IF STANDALONE_DATE_STAMP_REGEX(original_basename)
    THEN IF TakeFirst(original_basename, DATE_STAMP_LENGTH) = file_date_str
         THEN IF ~force
              THEN [kind |-> "process", name |-> original_basename]
              ELSE LET r == AfterStrip(StripOneStamp(original_basename))
                   IN  IF r.valid THEN [kind |-> "process", name |-> r.name]
                       ELSE [kind |-> "skipped-invalid-after-strip", name |-> r.name]
         ELSE LET s == StripLoop(original_basename, 0, 0)
              IN  IF s.stripped_count > 0
                  THEN LET r == AfterStrip(s.temp_name)
                       IN  IF r.valid THEN [kind |-> "process", name |-> r.name]
                           ELSE [kind |-> "skipped-invalid-after-strip", name |-> r.name]
                  ELSE [kind |-> "process", name |-> original_basename]
    ELSE IF Contains(original_basename, file_date_str) /\ ~force
    THEN [kind |-> "skipped-contains-date", name |-> original_basename]
    ELSE [kind |-> "process", name |-> original_basename]

\* StampDecision with the two-pass strip also on a correct stamp under force
StampDecision_ForceStripsTwice(original_basename, file_date_str, force) ==
    IF STANDALONE_DATE_STAMP_REGEX(original_basename)
    THEN IF TakeFirst(original_basename, DATE_STAMP_LENGTH) = file_date_str
         THEN IF ~force
              THEN [kind |-> "skipped-correct-stamp", name |-> original_basename]
              ELSE LET r == AfterStrip(StripLoop(original_basename, 0, 0).temp_name)
                   IN  IF r.valid THEN [kind |-> "process", name |-> r.name]
                       ELSE [kind |-> "skipped-invalid-after-strip", name |-> r.name]
         ELSE LET s == StripLoop(original_basename, 0, 0)
              IN  IF s.stripped_count > 0
                  THEN LET r == AfterStrip(s.temp_name)
                       IN  IF r.valid THEN [kind |-> "process", name |-> r.name]
                           ELSE [kind |-> "skipped-invalid-after-strip", name |-> r.name]
                  ELSE [kind |-> "process", name |-> original_basename]
    ELSE IF Contains(original_basename, file_date_str) /\ ~force
    THEN [kind |-> "skipped-contains-date", name |-> original_basename]
    ELSE [kind |-> "process", name |-> original_basename]

\* StampDecision with the contains-date test made first, whatever the name
\* starts with
StampDecision_ContainsFirst(original_basename, file_date_str, force) ==
    IF Contains(original_basename, file_date_str) /\ ~force
    THEN [kind |-> "skipped-contains-date", name |-> original_basename]
    ELSE IF STANDALONE_DATE_STAMP_REGEX(original_basename)
    THEN IF TakeFirst(original_basename, DATE_STAMP_LENGTH) = file_date_str
         THEN LET r == AfterStrip(StripOneStamp(original_basename))
              IN  IF r.valid THEN [kind |-> "process", name |-> r.name]
                  ELSE [kind |-> "skipped-invalid-after-strip", name |-> r.name]
         ELSE LET s == StripLoop(original_basename, 0, 0)
              IN  IF s.stripped_count > 0
                  THEN LET r == AfterStrip(s.temp_name)
                       IN  IF r.valid THEN [kind |-> "process", name |-> r.name]
                           ELSE [kind |-> "skipped-invalid-after-strip", name |-> r.name]
                  ELSE [kind |-> "process", name |-> original_basename]
    ELSE [kind |-> "process", name |-> original_basename]

\* The decision on the leading stamp: a skip classification, or the name
\* that goes on to normalization.
StampDecision(original_basename, file_date_str, force) ==
    IF STANDALONE_DATE_STAMP_REGEX(original_basename)
    THEN IF TakeFirst(original_basename, DATE_STAMP_LENGTH) = file_date_str
         THEN IF ~force
              THEN [kind |-> "skipped-correct-stamp", name |-> original_basename]
              ELSE LET r == AfterStrip(StripOneStamp(original_basename))
                   IN  IF r.valid THEN [kind |-> "process", name |-> r.name]
                       ELSE [kind |-> "skipped-invalid-after-strip", name |-> r.name]
         ELSE LET s == StripLoop(original_basename, 0, 0)
              IN  IF s.stripped_count > 0
                  THEN LET r == AfterStrip(s.temp_name)
                       IN  IF r.valid THEN [kind |-> "process", name |-> r.name]
                           ELSE [kind |-> "skipped-invalid-after-strip", name |-> r.name]
                  ELSE [kind |-> "process", name |-> original_basename]
    ELSE IF Contains(original_basename, file_date_str) /\ ~force
    THEN [kind |-> "skipped-contains-date", name |-> original_basename]
    ELSE [kind |-> "process", name |-> original_basename]

\* processed_name_part
ProcessedNamePart(name_part) ==
    StripLeading(StripLeading(RemoveChars(RemoveChars(Lower(name_part), BracketChars),
                                          SpaceCommaPlusAmp), "_"), ".")

\* processed_ext_part
ProcessedExtPart(ext_part) ==
    IF Lower(ext_part) = str_jpeg THEN str_jpg ELSE Lower(ext_part)

\* TentativeName without the underscore after the date
TentativeName_NoSeparator(file_date_str, filename_to_process) ==
    LET parts == SplitExt(filename_to_process)
        ext == ProcessedExtPart(parts.ext)
        stem == ProcessedNamePart(parts.root)
        name == IF stem = <<>>
                THEN (IF ext # <<>> THEN str_untitled ELSE str_untitled_file)
                ELSE stem
    IN  file_date_str \o name \o ext

\* final_name = f"{file_date_str}_{processed_name_part}{processed_ext_part}"
TentativeName(file_date_str, filename_to_process) ==
    LET parts == SplitExt(filename_to_process)
        ext == ProcessedExtPart(parts.ext)
        stem == ProcessedNamePart(parts.root)
        name == IF stem = <<>>
                THEN (IF ext # <<>> THEN str_untitled ELSE str_untitled_file)
                ELSE stem
    IN  file_date_str \o <<"_">> \o name \o ext

(***************************************************************************)
(* Collision resolution (lines 349-361)                                    *)
(***************************************************************************)
\* temp_final_name after k passes through the body of the while loop (the
\* counter is then k + 1)
TempFinalName(final_name, k) ==
    IF k = 0 THEN final_name
    ELSE LET parts == SplitExt(final_name)
         IN  parts.root \o <<"_">> \o IntToStr(k) \o parts.ext

\* The condition of the while loop (line 353): the name is a key of seen
\* (claimed) or one that os.path.exists is True for (existing)
LoopCondition(temp_final_name, claimed, existing) ==
    temp_final_name \in claimed \/ temp_final_name \in existing

\* GivesUp one pass later ("if counter > 101")
GivesUp_OnePassMore(counter) == counter > MaxAttempts + 1

\* GivesUp without the test of the counter
GivesUp_Never(counter) == FALSE

\* "if counter > 100" (line 358), tested after the counter was raised
GivesUp(counter) == counter > MaxAttempts

\* The variables of the collision loop while no iteration of the scan loop
\* is inside it
NoLoop ==
    [active |-> FALSE, original_filepath |-> None, file_date_str |-> None,
     date_source |-> "", filename_to_process |-> None, final_name |-> None,
     temp_final_name |-> None, counter |-> 1]

(***************************************************************************)
(* Metadata dates (lines 34-136).  The date strings are sequences of ASCII *)
(* characters like the names; NUL, VT, FS, GS, RS and US stand for the     *)
(* characters '\x00', '\x0b', '\x1c', '\x1d', '\x1e' and '\x1f'.           *)
(***************************************************************************)
\* the character s[p] of a C string: NUL behind its end
At(s, p) == IF p \in 1..Len(s) THEN s[p] ELSE NUL

\* parse_digits, and \d of a pattern: the n characters from position p are
\* digits
DigitsAt(s, p, n) == \A i \in p..(p + n - 1) : IsDigit(At(s, i))

DigitSet == { DigitChars[i] : i \in 1..10 }

\* str.strip()
RECURSIVE Strip(_)
Strip(s) ==
    IF s = <<>> THEN s
    ELSE IF s[1] \in WhiteSpace THEN Strip(Tail(s))
    ELSE IF s[Len(s)] \in WhiteSpace THEN Strip(SubSeq(s, 1, Len(s) - 1))
    ELSE s

\* the number written by the digits of s
RECURSIVE ToNat(_)
ToNat(s) ==
    IF s = <<>> THEN 0
    ELSE 10 * ToNat(SubSeq(s, 1, Len(s) - 1))
            + ((CHOOSE i \in 1..10 : DigitChars[i] = s[Len(s)]) - 1)

AllDigits(s) == \A i \in 1..Len(s) : IsDigit(s[i])

\* n written with w digits, as strftime writes %m %d %H %M %S
RECURSIVE Pad(_, _)
Pad(n, w) == IF w = 0 THEN <<>> ELSE Pad(n \div 10, w - 1) \o <<DigitChars[(n % 10) + 1]>>

IsLeap(y) == (y % 4 = 0 /\ y % 100 # 0) \/ y % 400 = 0

DaysInMonth(y, m) ==
    IF m = 2 THEN (IF IsLeap(y) THEN 29 ELSE 28)
    ELSE IF m \in {4, 6, 9, 11} THEN 30 ELSE 31

\* the datetime constructor accepts the fields
ValidDateTime(dt) ==
    /\ dt.year \in 1..9999
    /\ dt.month \in 1..12
    /\ dt.day \in 1..DaysInMonth(dt.year, dt.month)
    /\ dt.hour \in 0..23
    /\ dt.minute \in 0..59
    /\ dt.second \in 0..59

\* dt_object.strftime('%Y.%m.%d.%H.%M.%S'): the C library writes %Y without
\* leading zeros and the other fields with two digits
Strftime(dt) ==
    IntToStr(dt.year) \o <<".">> \o Pad(dt.month, 2) \o <<".">> \o Pad(dt.day, 2) \o <<".">>
       \o Pad(dt.hour, 2) \o <<".">> \o Pad(dt.minute, 2) \o <<".">> \o Pad(dt.second, 2)

NoDateTime == [ok |-> FALSE]

\* the position behind the run of characters of class that begins at p
RECURSIVE RunEnd(_, _, _)
RunEnd(s, p, class) ==
    IF p <= Len(s) /\ s[p] \in class THEN RunEnd(s, p + 1, class) ELSE p

\* The pattern that _strptime compiles from '%Y<a>%m<a>%d %H:%M:%S', item by
\* item: a directive, a literal character, or the blank that becomes \s+
FormatItems(a) == <<"Y", a, "m", a, "d", " ", "H", ":", "M", ":", "S">>

\* The numbers that the pattern of a directive admits, written with one or
\* two digits (%m 1[0-2]|0[1-9]|[1-9], %d 3[01]|[12]\d|0[1-9]|[1-9]| [1-9],
\* %H 2[0-3]|[0-1]\d|\d, %M [0-5]\d|\d, %S 6[0-1]|[0-5]\d|\d)
DirectiveRange == [m |-> 1..12, d |-> 1..31, H |-> 0..23, M |-> 0..59, S |-> 0..61]

\* where the digits of the text of directive c begin when the text begins
\* at p: %d may begin with a blank
DirectiveDigits(s, p, c) == IF c = "d" /\ At(s, p) = " " THEN p + 1 ELSE p

\* s[p..q-1] is one of the texts that the pattern of directive c matches:
\* one digit, or two digits and no blank, that write a number of its range
DirectiveMatches(s, p, q, c) ==
    /\ q - DirectiveDigits(s, p, c) \in {1, 2}
    /\ DirectiveDigits(s, p, c) > p => q - p = 2
    /\ ToNat(SubSeq(s, DirectiveDigits(s, p, c), q - 1)) \in DirectiveRange[c]

\* The match of the items against s from position p on, which must end
\* where s ends: the numbers of the six directives, << >> when s does not
\* match.  found holds the numbers read so far.
RECURSIVE StrptimeFields(_, _, _, _)
StrptimeFields(s, p, items, found) ==
    IF items = <<>> THEN (IF p = Len(s) + 1 THEN found ELSE <<>>)
    ELSE IF Head(items) = "Y"
    THEN IF DigitsAt(s, p, 4)
         THEN StrptimeFields(s, p + 4, Tail(items), Append(found, ToNat(SubSeq(s, p, p + 3))))
         ELSE <<>>
    ELSE IF Head(items) = " "
    THEN IF At(s, p) \in WhiteSpace
         THEN StrptimeFields(s, RunEnd(s, p, WhiteSpace), Tail(items), found)
         ELSE <<>>
    ELSE IF Head(items) \in DOMAIN DirectiveRange
    THEN LET c == Head(items)
             from == DirectiveDigits(s, p, c)
             q == RunEnd(s, from, DigitSet)
         IN  IF DirectiveMatches(s, p, q, c)
             THEN StrptimeFields(s, q, Tail(items), Append(found, ToNat(SubSeq(s, from, q - 1))))
             ELSE <<>>
    ELSE IF At(s, p) = Head(items)
    THEN StrptimeFields(s, p + 1, Tail(items), found)
    ELSE <<>>

\* the datetime of six numbers, none for << >>
AsDateTime(f) ==
    IF f = <<>> THEN NoDateTime
    ELSE [ok |-> TRUE, year |-> f[1], month |-> f[2], day |-> f[3],
          hour |-> f[4], minute |-> f[5], second |-> f[6]]

\* strftime of the datetime that the constructor makes of the fields, None
\* when there are none or the constructor raises ValueError
StrftimeOf(dt) == IF dt.ok /\ ValidDateTime(dt) THEN Strftime(dt) ELSE None

\* datetime.strptime(s, fmt) then strftime, None for ValueError; fmt is
\* '%Y:%m:%d %H:%M:%S' when a is ':' and '%Y-%m-%d %H:%M:%S' when a is '-'
Strptime(s, a) == StrftimeOf(AsDateTime(StrptimeFields(s, 1, FormatItems(a), <<>>)))

(***************************************************************************)
(* datetime.fromisoformat of CPython 3.11 (the call of lines 59-62)        *)
(***************************************************************************)
\* _find_isoformat_datetime_separator: the number of characters of the date
\* part of a string of 7 characters or more, -1 when there is none
FindIsoformatDatetimeSeparator(s) ==
    LET len == Len(s)
        idx == RunEnd(s, 8, DigitSet) - 1
    IN  IF len = 7 THEN 7
        ELSE IF s[5] = "-"
        THEN IF s[6] = "W"
             THEN IF len > 8 /\ s[9] = "-"
                  THEN IF len = 9 THEN -1
                       ELSE IF len > 10 /\ IsDigit(s[11]) THEN 8 ELSE 10
                  ELSE 8
             ELSE 10
        ELSE IF s[5] = "W"
        THEN IF idx < 9 THEN idx ELSE IF idx % 2 = 0 THEN 7 ELSE 8
        ELSE 8

\* days_before_year and the ordinal of a date (1 is 0001-01-01)
DaysBeforeYear(y) ==
    (y - 1) * 365 + ((y - 1) \div 4) - ((y - 1) \div 100) + ((y - 1) \div 400)

RECURSIVE DaysBeforeMonth(_, _)
DaysBeforeMonth(y, m) ==
    IF m = 1 THEN 0 ELSE DaysBeforeMonth(y, m - 1) + DaysInMonth(y, m - 1)

\* weekday(y, 1, 1), Monday is 0
FirstWeekday(y) == (DaysBeforeYear(y) + 1 + 6) % 7

\* iso_week1_monday
IsoWeek1Monday(y) ==
    LET week1_monday == DaysBeforeYear(y) + 1 - FirstWeekday(y)
    IN  IF FirstWeekday(y) > 3 THEN week1_monday + 7 ELSE week1_monday

\* ord_to_ymd for an ordinal of the years y - 1 .. y + 1
OrdToYmd(ordinal, y) ==
    LET year == CHOOSE c \in (y - 1)..(y + 1) :
                    DaysBeforeYear(c) < ordinal /\ ordinal <= DaysBeforeYear(c + 1)
        n == ordinal - DaysBeforeYear(year)
        month == CHOOSE m \in 1..12 :
                     DaysBeforeMonth(year, m) < n /\ n <= DaysBeforeMonth(year, m) + DaysInMonth(year, m)
    IN  [ok |-> TRUE, year |-> year, month |-> month, day |-> n - DaysBeforeMonth(year, month)]

\* iso_to_ymd: the date of day iso_day of week iso_week of an ISO year
IsoToYmd(iso_year, iso_week, iso_day) ==
    LET has_week_53 == \/ FirstWeekday(iso_year) = 3
                       \/ FirstWeekday(iso_year) = 2 /\ IsLeap(iso_year)
    IN  IF \/ iso_week \notin 1..53
           \/ iso_week = 53 /\ ~has_week_53
           \/ iso_day \notin 1..7
        THEN NoDateTime
        ELSE OrdToYmd(IsoWeek1Monday(iso_year) + (iso_week - 1) * 7 + iso_day - 1, iso_year)

\* parse_isoformat_date on the first len characters of s: YYYY-MM-DD,
\* YYYYMMDD, YYYY-Www, YYYY-Www-D, YYYYWww or YYYYWwwD
ParseIsoformatDate(s, len) ==
    LET uses_separator == At(s, 5) = "-"
        p == IF uses_separator THEN 6 ELSE 5
        day_at == IF uses_separator THEN p + 4 ELSE p + 3
    IN  IF ~DigitsAt(s, 1, 4) THEN NoDateTime
        ELSE IF At(s, p) = "W"
        THEN IF ~DigitsAt(s, p + 1, 2) THEN NoDateTime
             ELSE IF /\ p + 2 < len
                     /\ \/ uses_separator /\ At(s, p + 3) # "-"
                        \/ ~DigitsAt(s, day_at, 1)
             THEN NoDateTime
             ELSE IsoToYmd(ToNat(SubSeq(s, 1, 4)), ToNat(SubSeq(s, p + 1, p + 2)),
                           IF p + 2 < len THEN ToNat(<<s[day_at]>>) ELSE 1)
        ELSE IF ~DigitsAt(s, p, 2) THEN NoDateTime
        ELSE IF uses_separator /\ At(s, p + 2) # "-" THEN NoDateTime
        ELSE IF ~DigitsAt(s, day_at - 1, 2) THEN NoDateTime
        ELSE [ok |-> TRUE, year |-> ToNat(SubSeq(s, 1, 4)), month |-> ToNat(SubSeq(s, p, p + 1)),
              day |-> ToNat(SubSeq(s, day_at - 1, day_at))]

\* the end of parse_hh_mm_ss_ff: the digits of the fraction from position p,
\* at most six of them read and the following ones skipped; rv is 1 when
\* the character behind them is not NUL
ParseFraction(t, p, p_end, vals) ==
    LET len_remains == p_end - p
        to_parse == IF len_remains >= 6 THEN 6 ELSE len_remains
        rest == RunEnd(t, p + to_parse, DigitSet)
    IN  IF ~DigitsAt(t, p, to_parse) THEN [rv |-> -3, vals |-> vals]
        ELSE [rv |-> IF At(t, rest) # NUL THEN 1 ELSE 0, vals |-> vals]

\* parse_hh_mm_ss_ff on t[p..p_end-1], HH[:MM[:SS]] or HH[MM[SS]] and a
\* fraction: pass i of its loop reads two digits into vals; rv is negative
\* for a malformed text, 1 when text is left over and 0 otherwise
RECURSIVE ParseHhMmSsFf(_, _, _, _, _, _)
ParseHhMmSsFf(t, p, p_end, i, has_separator, vals) ==
    IF i = 3 THEN ParseFraction(t, p, p_end, vals)
    ELSE IF ~DigitsAt(t, p, 2) THEN [rv |-> -3, vals |-> vals]
    ELSE LET c == At(t, p + 2)
             next == p + 3
             separated == IF i = 0 THEN c = ":" ELSE has_separator
             read == [vals EXCEPT ![i + 1] = ToNat(SubSeq(t, p, p + 1))]
         IN  IF next >= p_end THEN [rv |-> IF c # NUL THEN 1 ELSE 0, vals |-> read]
             ELSE IF separated /\ c = ":"
             THEN ParseHhMmSsFf(t, next, p_end, i + 1, separated, read)
             ELSE IF c \in {".", ","} THEN ParseFraction(t, next, p_end, read)
             ELSE IF ~separated
             THEN ParseHhMmSsFf(t, next - 1, p_end, i + 1, separated, read)
             ELSE [rv |-> -4, vals |-> read]

\* the position of the first Z, + or - of t, behind its end when it has none
TzinfoPos(t) == RunEnd(t, 1, { t[i] : i \in 1..Len(t) } \ {"Z", "+", "-"})

\* the end of parse_isoformat_time: time is what parse_hh_mm_ss_ff reads up
\* to tzinfo_pos and tz what it reads behind it, the UTC offset, which must
\* be less than a day
TimeAndOffset(t, tzinfo_pos, time, tz) ==
    IF /\ t # <<>>
       /\ time.rv >= 0
       /\ IF tzinfo_pos = Len(t) + 1 THEN time.rv = 0
          ELSE IF t[tzinfo_pos] = "Z" THEN At(t, tzinfo_pos + 1) = NUL
          ELSE tz.rv = 0 /\ tz.vals[1] * 3600 + tz.vals[2] * 60 + tz.vals[3] < 86400
    THEN [ok |-> TRUE, hour |-> time.vals[1], minute |-> time.vals[2], second |-> time.vals[3]]
    ELSE NoDateTime

\* parse_isoformat_time: the time up to the first Z, + or -, then the UTC
\* offset
ParseIsoformatTime(t) ==
    TimeAndOffset(t, TzinfoPos(t),
                  ParseHhMmSsFf(t, 1, TzinfoPos(t), 0, TRUE, <<0, 0, 0>>),
                  ParseHhMmSsFf(t, TzinfoPos(t) + 1, Len(t) + 1, 0, TRUE, <<0, 0, 0>>))

\* the datetime of a date and a time, none when either is missing
Combine(date, time) ==
    IF date.ok /\ time.ok
    THEN [ok |-> TRUE, year |-> date.year, month |-> date.month, day |-> date.day,
          hour |-> time.hour, minute |-> time.minute, second |-> time.second]
    ELSE NoDateTime

\* the date and the time of day that fromisoformat reads from s when the
\* date part has separator_location characters
IsoFields(s, separator_location) ==
    Combine(IF separator_location < 0 THEN NoDateTime
            ELSE ParseIsoformatDate(s, separator_location),
            IF Len(s) > separator_location
            THEN ParseIsoformatTime(DropFirst(s, separator_location + 1))
            ELSE [ok |-> TRUE, hour |-> 0, minute |-> 0, second |-> 0])

\* datetime.fromisoformat(s) then strftime, None for ValueError
FromIsoFormat(s) ==
    IF Len(s) < 7 THEN None
    ELSE StrftimeOf(IsoFields(s, FindIsoformatDatetimeSeparator(s)))

\* xmp_date_str_iso[:19].replace('T', ' ')
ReplaceT(s) == [i \in 1..Len(s) |-> IF s[i] = "T" THEN " " ELSE s[i]]

\* a when it is a date, else b
OrElse(a, b) == IF a # None THEN a ELSE b

\* xmp_date_str_iso with a trailing Z written as +00:00 (lines 60-61)
ZAsOffset(xmp_date_str_iso) ==
    IF EndsWith(xmp_date_str_iso, <<"Z">>)
    THEN SubSeq(xmp_date_str_iso, 1, Len(xmp_date_str_iso) - 1) \o <<"+","0","0",":","0","0">>
    ELSE xmp_date_str_iso

\* The parse of an XMP date (lines 56-76): fromisoformat, a trailing Z read
\* as +00:00, and when that fails strptime on the first 19 characters
ParseXmpDate(xmp_date_str_iso) ==
    OrElse(FromIsoFormat(ZAsOffset(xmp_date_str_iso)),
           Strptime(ReplaceT(TakeFirst(xmp_date_str_iso, 19)), "-"))

\* The parse of an EXIF date (lines 98-106)
ParseExifDate(exif_date_str_from_tags) ==
    Strptime(RemoveChars(Strip(exif_date_str_from_tags), {NUL}), ":")

\* The metadata of an image that Pillow opens: the text of the two XMP
\* elements and the values of the two EXIF tags, None for one that is absent
Image(xmp_CreateDate, photoshop_DateCreated, DateTimeOriginal, DateTimeDigitized) ==
    [opened |-> TRUE, xmp_CreateDate |-> xmp_CreateDate, photoshop_DateCreated |-> photoshop_DateCreated,
     DateTimeOriginal |-> DateTimeOriginal, DateTimeDigitized |-> DateTimeDigitized]

\* _try_parse_xmp_create_date: photoshop:DateCreated is read only when there
\* is no xmp:CreateDate
try_parse_xmp_create_date(img) ==
    LET xmp_date_str_iso == IF img.xmp_CreateDate # None THEN Strip(img.xmp_CreateDate)
                            ELSE IF img.photoshop_DateCreated # None
                            THEN Strip(img.photoshop_DateCreated)
                            ELSE None
    IN  IF xmp_date_str_iso # None THEN ParseXmpDate(xmp_date_str_iso) ELSE None

\* _try_parse_exif_tags: the loop over EXIF_DATE_FALLBACK_TAGS breaks at the
\* first tag that has a value, and only that value is parsed
try_parse_exif_tags(img) ==
    LET exif_date_str_from_tags == IF img.DateTimeOriginal # None THEN img.DateTimeOriginal
                                   ELSE IF img.DateTimeDigitized # None
                                   THEN img.DateTimeDigitized
                                   ELSE None
    IN  IF exif_date_str_from_tags # None THEN ParseExifDate(exif_date_str_from_tags)
        ELSE None

\* Pillow is missing, or Image.open raises
NoImage == [Image(None, None, None, None) EXCEPT !.opened = FALSE]

\* get_exif_date
get_exif_date(img) ==
    IF ~img.opened THEN None
    ELSE OrElse(try_parse_xmp_create_date(img), try_parse_exif_tags(img))

(***************************************************************************)
(* The directory and the run                                               *)
(***************************************************************************)
\* Bounds of the model
MaxFiles == 2
MaxRuns == 2
MaxSeconds == 1

\* Time stamps of the modelled files, as time.strftime("%Y.%m.%d.%H.%M.%S")
\* formats them, and a time after them all, at which a run may begin.
TA == <<"2","0","2","3",".","0","5",".","0","6",".","0","7",".","0","8",".","0","9">>
TB == <<"2","0","2","0",".","0","1",".","0","1",".","0","0",".","0","0",".","0","0">>
NowStamp == <<"2","0","2","6",".","1","0",".","3","0",".","1","2",".","0","0",".","0","0">>

n_old_jpg == <<"o","l","d",".","j","p","g">>
n_Old_JPEG == <<"O","l","d",".","J","P","E","G">>
n_dot_jpg == <<".","j","p","g">>
n_messy_PNG == <<"(","O","l","d",")"," ","+","1",".","P","N","G">>
n_old_mp4 == <<"o","l","d",".","m","p","4">>
n_notes_txt == <<"n","o","t","e","s",".","t","x","t">>

\* EXIF and XMP date strings
x_TB == <<"2","0","2","0",":","0","1",":","0","1"," ","0","0",":","0","0",":","0","0">>
x_TB_nul == <<" ">> \o x_TB \o <<NUL>>
x_zero == <<"0","0","0","0",":","0","0",":","0","0"," ","0","0",":","0","0",":","0","0">>
x_TC == <<"2","0","2","1",":","0","2",":","2","8"," ","2","3",":","5","9",":","5","9">>
x_Feb29 == <<"2","0","2","1",":","0","2",":","2","9"," ","0","0",":","0","0",":","0","0">>
i_TD == <<"2","0","2","2","-","0","7","-","0","8","T","0","9",":","1","0",":","1","1">>
i_TD_Z == i_TD \o <<"Z">>
i_TD_offset == i_TD \o <<".","5","+","0","2",":","0","0">>
i_TD_junk == i_TD \o <<"x","x">>
i_TE_date == <<"2","0","1","9","-","1","2","-","3","1">>
i_month13 == <<"2","0","2","2","-","1","3","-","0","8","T","0","9",":","1","0",":","1","1">>
i_blank == <<" ">>
x_TC_loose == <<"2","0","2","1",":","2",":","2","8","\t"," ","2","3",":","5","9",":","5","9",VT>>
i_TD_minutes == <<"2","0","2","2","-","0","7","-","0","8","T","0","9",":","1","0">>
i_year999 == <<"0","9","9","9","-","1","2","-","3","1">>

\* an image whose only date is EXIF DateTimeOriginal = TB
ExifTB == Image(None, None, x_TB, None)

\* A directory entry.  id is the identity of the file (it survives a
\* rename); regular is os.path.isfile; ctime is what os.lstat gives when
\* lstat_ok; exif is the metadata get_exif_date finds in the file (NoImage
\* when Pillow is missing or cannot open it); immutable makes os.rename and os.chmod
\* raise; xbits says that some execute bit is set; link is FALSE for a file
\* or a directory.
Entry(id, name, regular, ctime, lstat_ok, exif, immutable, xbits) ==
    [id |-> id, name |-> name, regular |-> regular, ctime |-> ctime,
     lstat_ok |-> lstat_ok, exif |-> exif, immutable |-> immutable, xbits |-> xbits,
     link |-> FALSE]

\* A symbolic link whose target is missing: glob lists it, os.path.isfile
\* and os.path.exists follow the link and are False for it
DanglingLink(id, name) ==
    [Entry(id, name, FALSE, TB, TRUE, NoImage, FALSE, FALSE) EXCEPT !.link = TRUE]

Pool == {
    Entry(1,  n_old_jpg,                                  TRUE,  TA, TRUE,  NoImage, FALSE, TRUE),
    Entry(2,  n_Old_JPEG,                                 TRUE,  TA, TRUE,  NoImage, FALSE, FALSE),
    Entry(3,  TB \o <<"_">> \o n_old_jpg,                 TRUE,  TA, TRUE,  NoImage, FALSE, TRUE),
    Entry(4,  TA \o <<"_">> \o n_old_jpg,                 TRUE,  TA, TRUE,  NoImage, FALSE, FALSE),
    Entry(5,  TA \o <<"_","o","l","d","_","1">> \o n_dot_jpg, FALSE, TB, TRUE, NoImage, FALSE, TRUE),
    Entry(6,  TA \o <<"_">> \o n_dot_jpg,                 TRUE,  TA, TRUE,  NoImage, FALSE, FALSE),
    Entry(7,  TB \o <<"_">> \o n_dot_jpg,                 TRUE,  TA, TRUE,  NoImage, FALSE, FALSE),
    Entry(8,  TB \o <<"_">> \o TA \o <<"_">> \o n_old_jpg, TRUE, TA, TRUE,  NoImage, FALSE, FALSE),
    Entry(9,  <<"o","l","d","_">> \o TA \o n_dot_jpg,     TRUE,  TA, TRUE,  NoImage, FALSE, FALSE),
    Entry(10, n_messy_PNG,                                TRUE,  TA, TRUE,  NoImage, TRUE,  TRUE),
    Entry(11, n_old_mp4,                                  TRUE,  TA, FALSE, NoImage, FALSE, TRUE),
    Entry(12, n_notes_txt,                                TRUE,  TA, TRUE,  NoImage, FALSE, TRUE),
    Entry(13, n_old_jpg,                                  TRUE,  TA, TRUE,  ExifTB, FALSE, FALSE),
    Entry(14, TA \o <<"_">> \o n_old_jpg,                 TRUE,  TB, TRUE,  ExifTB, FALSE, FALSE),
    Entry(15, TA \o <<"_","_">> \o n_dot_jpg,             TRUE,  TA, TRUE,  NoImage, FALSE, FALSE),
    Entry(16, TB \o n_dot_jpg,                            TRUE,  TA, TRUE,  NoImage, FALSE, FALSE),
    DanglingLink(17, TA \o <<"_">> \o n_old_jpg),
    Entry(18, <<".">> \o n_old_jpg,                      TRUE,  TA, TRUE,  NoImage, FALSE, TRUE) }

\* The entries that fill the counter names of TA_old.jpg: directories
\* TA_old_1.jpg .. TA_old_k.jpg
Crowd(k) == { Entry(100 + i, TA \o <<"_","o","l","d","_">> \o IntToStr(i) \o n_dot_jpg,
                    FALSE, TB, TRUE, NoImage, FALSE, TRUE) : i \in 1..k }

CrowdSizes == {MaxAttempts - 2, MaxAttempts - 1, MaxAttempts}

CrowdBase == { e \in Pool : e.id \in {2, 14} }

\* The same with the candidate name held by a file whose stamp is its date,
\* which no run without force renames
CrowdBaseCorrectStamp == { e \in Pool : e.id \in {2, 4} }

DistinctNames(D) == \A a, b \in D : a.name = b.name => a = b

VARIABLES
    args_force,                                   \* args.force
    args_time_from_exif,                          \* args.time_from_exif
    disk,                                         \* the entries of the current directory
    run,                                          \* which run of the script this is
    pc,                                           \* "scan", "rename", "chmod", "summary", "done"
    glob_todo,                                    \* of the list glob.glob("*") gave, what is not yet iterated
    seen,                                         \* final name -> (original path, date source)
    eligible_files_not_renamed_paths,
    successfully_renamed_original_paths,
    scanned_files_count,
    eligible_files_count,
    skipped_datestamped_no_force_count,
    skipped_empty_after_strip_count,
    skipped_contains_date_no_force_count,
    skipped_no_change_count,
    renamed_count,
    total_permissions_adjusted,
    rename_todo,                                  \* sorted(seen.items()) not yet iterated
    chmod_todo,                                   \* final_paths_to_chmod_original not yet iterated
    loop,                                         \* the collision loop: temp_final_name, counter, ...
    \* history of the run, for stating the properties
    scan_disk,                                    \* the directory when the run started
    outcome,                                      \* original path -> classifications given
    resolved,                                     \* original path -> file_date_str, final_name
    probe,                                        \* original path -> the collision resolution made
    rename_log,                                   \* the os.rename calls, in order, and whether
                                                  \* the target existed at the call
    chmod_log,                                    \* the try_remove_executable_bits calls, in order
    prev_run                                      \* the history of the run before

counters == <<scanned_files_count, eligible_files_count, skipped_datestamped_no_force_count,
              skipped_empty_after_strip_count, skipped_contains_date_no_force_count,
              skipped_no_change_count, renamed_count, total_permissions_adjusted>>

history == <<scan_disk, outcome, resolved, probe, rename_log, chmod_log, prev_run>>

vars == <<args_force, args_time_from_exif, disk, run, pc, glob_todo, seen,
          eligible_files_not_renamed_paths, successfully_renamed_original_paths,
          counters, rename_todo, chmod_todo, loop, history>>

Names(D) == { e.name : e \in D }

EntryNamed(D, name) == CHOOSE e \in D : e.name = name

\* the names os.path.exists is True for: those of the entries that are not
\* links without a target
ExistingNames(D) == { e.name : e \in { x \in D : ~x.link } }

\* os.path.exists(name)
Exists(D, name) == name \in ExistingNames(D)

\* os.path.isfile(name) and EXTENSIONS.search(name)
Eligible(e) == e.regular /\ EXTENSIONS(e.name)

EligibleNames(D) == { e.name : e \in { x \in D : Eligible(x) } }

\* glob.glob("*") does not give the names that begin with a dot
Visible(D) == { e \in D : e.name[1] # "." }

\* every order of the elements of S
RECURSIVE Orders(_)
Orders(S) ==
    IF S = {} THEN { << >> }
    ELSE UNION { { <<x>> \o rest : rest \in Orders(S \ {x}) } : x \in S }

\* The lists glob.glob("*") may give: the visible names in directory order,
\* which is arbitrary.  The loop of line 213 tells the entries that are not
\* eligible apart only by counting them, so of a list the model keeps the
\* eligible names in the order of the list (eligible) and the number of the
\* other names of the list (others), which lie anywhere between them.
Glob(D) ==
    { [eligible |-> o,
       others |-> Cardinality(Visible(D)) - Cardinality(EligibleNames(Visible(D)))] :
         o \in Orders(EligibleNames(Visible(D))) }

\* the stamp of the time i seconds after NowStamp, for i < 60
SecondsAfterNow(i) == SubSeq(NowStamp, 1, Len(NowStamp) - 2) \o Pad(i, 2)

\* the seconds in which something may happen, as stamps, from the earliest
\* to the latest
ClockStamps == <<TB, TA>> \o [ i \in 1..(MaxSeconds + 1) |-> SecondsAfterNow(i - 1) ]

\* The second in which an operation on D may happen, as a stamp: the clock
\* does not go back, so it is not before any change time in D
Clock(D) ==
    { ClockStamps[k] :
        k \in { i \in DOMAIN ClockStamps :
                  \A e \in D : \E j \in 1..i : e.ctime = ClockStamps[j] } }

\* The values main() starts with (lines 199-210), over directory D
FreshRun(D) ==
    [seen |-> << >>, paths |-> {}, count |-> 0,
     todo |-> << >>, log |-> << >>, map |-> << >>]

NoPrevRun == [scan_disk |-> {}, outcome |-> << >>, resolved |-> << >>]

\* The start of the first run over the directory
InitRun ==
    /\ run = 1
    /\ pc = "scan"
    /\ prev_run = NoPrevRun
    /\ glob_todo \in Glob(disk)
    /\ seen = FreshRun(disk).seen
    /\ eligible_files_not_renamed_paths = FreshRun(disk).paths
    /\ successfully_renamed_original_paths = FreshRun(disk).paths
    /\ scanned_files_count = FreshRun(disk).count
    /\ eligible_files_count = FreshRun(disk).count
    /\ skipped_datestamped_no_force_count = FreshRun(disk).count
    /\ skipped_empty_after_strip_count = FreshRun(disk).count
    /\ skipped_contains_date_no_force_count = FreshRun(disk).count
    /\ skipped_no_change_count = FreshRun(disk).count
    /\ renamed_count = FreshRun(disk).count
    /\ total_permissions_adjusted = FreshRun(disk).count
    /\ rename_todo = FreshRun(disk).todo
    /\ chmod_todo = FreshRun(disk).paths
    /\ loop = NoLoop
    /\ scan_disk = disk
    /\ outcome = FreshRun(disk).map
    /\ resolved = FreshRun(disk).map
    /\ probe = FreshRun(disk).map
    /\ rename_log = FreshRun(disk).log
    /\ chmod_log = FreshRun(disk).log

Init ==
    /\ args_force \in BOOLEAN
    /\ args_time_from_exif \in BOOLEAN
    /\ \/ \E D \in SUBSET Pool :
             /\ Cardinality(D) <= MaxFiles
             /\ DistinctNames(D)
             /\ disk = D
       \/ \E k \in CrowdSizes :
             /\ disk = CrowdBase \cup Crowd(k)
             /\ ~args_time_from_exif
       \/ /\ disk = CrowdBaseCorrectStamp \cup Crowd(MaxAttempts - 1)
          /\ ~args_force
          /\ ~args_time_from_exif
    /\ InitRun

\* Names with stamps at their start and elsewhere, for a file whose ctime is TA
StampNames == {
    n_old_jpg,
    TA \o <<"_">> \o n_old_jpg,
    TA \o n_old_jpg,
    TA \o <<"_","_">> \o n_old_jpg,
    TA \o <<"_">> \o TB \o <<"_">> \o n_old_jpg,
    TA \o <<"_">> \o TA \o <<"_">> \o n_old_jpg,
    TA \o <<"_">> \o n_Old_JPEG,
    TB \o <<"_">> \o n_old_jpg,
    TB \o TB \o n_old_jpg,
    TB \o <<"_","_">> \o TB \o <<"_">> \o n_old_jpg,
    TB \o <<"_">> \o TA \o <<"_">> \o n_old_jpg,
    TB \o <<"_">> \o TB \o <<"_">> \o TB \o <<"_">> \o n_old_jpg,
    TB \o <<"_">> \o TB \o <<"_">> \o TA \o <<"_">> \o n_old_jpg,
    TB \o <<"_","o","l","d","_">> \o TB \o n_dot_jpg,
    TB \o <<"_","o","l","d","_">> \o TA \o n_dot_jpg,
    <<"o","l","d","_">> \o TA \o n_dot_jpg,
    <<"o","l","d">> \o TA \o <<"x">> \o n_dot_jpg,
    <<"O","l","d","_">> \o TB \o n_dot_jpg,
    <<"_">> \o TA \o <<"_">> \o n_old_jpg }

\* A directory of one file with one of these names
\* A directory named as old.jpg is when stamped with TA, in the way of the
\* file that gets this name
InTheWay == Entry(31, TA \o <<"_">> \o n_old_jpg, FALSE, TB, TRUE, NoImage, FALSE, TRUE)

InitStamps ==
    /\ args_force \in BOOLEAN
    /\ args_time_from_exif \in BOOLEAN
    /\ \E name \in StampNames, others \in SUBSET {InTheWay} :
          /\ disk = { Entry(30, name, TRUE, TA, TRUE, NoImage, FALSE, TRUE) } \cup others
          /\ DistinctNames(disk)
    /\ InitRun

\* The values of the metadata fields that the images of InitExif carry
XmpCreateDateValues == {None, i_TD, i_TD_Z, i_TD_offset, i_TD_junk, i_TE_date, i_month13, i_blank,
                        i_TD_minutes}
XmpDateCreatedValues == {None, i_TE_date, i_month13, i_year999}
DateTimeOriginalValues == {None, x_TB, x_TB_nul, x_zero, x_TC, x_Feb29, x_TC_loose}
DateTimeDigitizedValues == {None, x_TC, x_zero}

Images == { Image(a, b, c, d) : a \in XmpCreateDateValues, b \in XmpDateCreatedValues,
                                c \in DateTimeOriginalValues, d \in DateTimeDigitizedValues }

\* One file, with any metadata, renamed with -t, and the directory that is in
\* the way when the file is stamped with its ctime
InitExif ==
    /\ args_force \in BOOLEAN
    /\ args_time_from_exif = TRUE
    /\ \E img \in Images \cup {NoImage} :
          disk = { Entry(20, n_old_jpg, TRUE, TA, TRUE, img, FALSE, TRUE), InTheWay }
    /\ InitRun


(***************************************************************************)
(* Phase 1: the scan loop (lines 213-372)                                  *)
(***************************************************************************)
\* Date resolution (lines 225-258): the EXIF/XMP date when -t is given and
\* get_exif_date returns one, else the ctime; ok is FALSE when os.lstat raises
ResolveDate(e, time_from_exif) ==
    IF time_from_exif /\ get_exif_date(e.exif) # None
    THEN [ok |-> TRUE, date |-> get_exif_date(e.exif), source |-> "EXIF/XMP"]
    ELSE IF e.lstat_ok
    THEN [ok |-> TRUE, date |-> e.ctime,
          source |-> IF time_from_exif THEN "ctime (EXIF/XMP fallback)" ELSE "ctime (default)"]
    ELSE [ok |-> FALSE, date |-> None, source |-> ""]

\* What one iteration of the scan loop decides for the eligible entry e up
\* to the collision loop: class is the branch that ends the iteration, or
\* "collision-loop" when the iteration goes on to line 349 with final_name.
ScanDecision(e, force, time_from_exif) ==
    LET d == ResolveDate(e, time_from_exif)
        NoName(class) == [class |-> class, date |-> d.date, source |-> d.source,
                          filename_to_process |-> None, final_name |-> None]
    IN  IF ~d.ok \/ d.date = None THEN NoName("error")
        ELSE LET sd == StampDecision(e.name, d.date, force)
             IN  IF sd.kind # "process" THEN NoName(sd.kind)
                 ELSE LET final_name == TentativeName(d.date, sd.name)
                          WithName(class) ==
                              [class |-> class, date |-> d.date, source |-> d.source,
                               filename_to_process |-> sd.name, final_name |-> final_name]
                      IN  IF final_name = e.name THEN WithName("skipped-no-change")
                          ELSE WithName("collision-loop")

\* The classifications given to a path so far, with cs added
Classify(o, path, cs) ==
    IF path \in DOMAIN o THEN [o EXCEPT ![path] = @ \cup cs] ELSE (path :> cs) @@ o

Bump(n, cond) == IF cond THEN n + 1 ELSE n

\* NotRenamedAfterScan with the add of line 367 made only for a name that
\* resolved to the file's own
NotRenamedAfterScan_ForgetsExhausted(paths, class, original_filepath) ==
    IF class \in {"ineligible", "collision-loop", "planned", "skipped-collision-exhausted"}
    THEN paths ELSE paths \cup {original_filepath}

\* NotRenamedAfterScan without the add of the except branches of os.lstat
NotRenamedAfterScan_ForgetsError(paths, class, original_filepath) ==
    IF class \in {"ineligible", "collision-loop", "planned", "error"}
    THEN paths ELSE paths \cup {original_filepath}

\* eligible_files_not_renamed_paths after the branch taken: every branch that
\* ends the iteration with "continue" adds the path first
NotRenamedAfterScan(paths, class, original_filepath) ==
    IF class \in {"ineligible", "collision-loop", "planned"}
    THEN paths ELSE paths \cup {original_filepath}

\* What the loop of line 213 may take next from the list todo over D: the
\* first eligible name that is left, or one of the other entries that are
\* left, and the list without it.  The entry matters only when it is eligible.
TakeFromGlob(D, todo) ==
    (IF todo.eligible = << >> THEN {}
     ELSE { [eligible |-> TRUE, entry |-> EntryNamed(D, Head(todo.eligible)),
             rest |-> [todo EXCEPT !.eligible = Tail(@)]] })
    \cup
    (IF todo.others = 0 THEN {}
     ELSE { [eligible |-> FALSE, entry |-> [name |-> None],
             rest |-> [todo EXCEPT !.others = @ - 1]] })

\* One iteration of "for original_filepath in glob.glob('*')", up to its
\* "continue" or to the start of the collision loop (lines 213-351)
Scan ==
    /\ pc = "scan"
    /\ ~loop.active
    /\ \E next \in TakeFromGlob(disk, glob_todo) :
       \E r \in { IF next.eligible
                  THEN ScanDecision(next.entry, args_force, args_time_from_exif)
                  ELSE [class |-> "ineligible"] } :
          /\ LET original_filepath == next.entry.name
                 class == r.class
             IN  /\ glob_todo' = next.rest
                 /\ scanned_files_count' = scanned_files_count + 1
                 /\ eligible_files_count' = Bump(eligible_files_count, next.eligible)
                 /\ skipped_datestamped_no_force_count' =
                        Bump(skipped_datestamped_no_force_count, class = "skipped-correct-stamp")
                 /\ skipped_empty_after_strip_count' =
                        Bump(skipped_empty_after_strip_count, class = "skipped-invalid-after-strip")
                 /\ skipped_contains_date_no_force_count' =
                        Bump(skipped_contains_date_no_force_count, class = "skipped-contains-date")
                 /\ skipped_no_change_count' =
                        Bump(skipped_no_change_count, class = "skipped-no-change")
                 /\ eligible_files_not_renamed_paths' =
                        NotRenamedAfterScan(eligible_files_not_renamed_paths, class,
                                            original_filepath)
                 /\ outcome' = IF class \in {"ineligible", "collision-loop"} THEN outcome
                               ELSE Classify(outcome, original_filepath, {class})
                 /\ resolved' = IF class \in {"ineligible", "collision-loop"} THEN resolved
                                ELSE (original_filepath :>
                                         [date |-> r.date,
                                          filename_to_process |-> r.filename_to_process,
                                          final_name |-> r.final_name]) @@ resolved
                 /\ loop' = IF class = "collision-loop"
                            THEN [active |-> TRUE, original_filepath |-> original_filepath,
                                  file_date_str |-> r.date, date_source |-> r.source,
                                  filename_to_process |-> r.filename_to_process,
                                  final_name |-> r.final_name,
                                  temp_final_name |-> r.final_name, counter |-> 1]
                            ELSE loop
    /\ UNCHANGED <<args_force, args_time_from_exif, disk, run, pc, seen, renamed_count,
                   total_permissions_adjusted, successfully_renamed_original_paths,
                   rename_todo, chmod_todo, scan_disk, probe, rename_log, chmod_log,
                   prev_run>>

\* One pass through the body of the while loop (lines 353-361): the name
\* tested is taken and is not the file's own, so the next one is made; the
\* pass that raises the counter above MaxAttempts leaves the loop with None
ProbePass ==
    /\ pc = "scan"
    /\ loop.active
    /\ LoopCondition(loop.temp_final_name, DOMAIN seen, ExistingNames(disk))
    /\ loop.temp_final_name # loop.original_filepath
    /\ loop' = [loop EXCEPT !.temp_final_name =
                                IF GivesUp(loop.counter + 1) THEN None
                                ELSE TempFinalName(loop.final_name, loop.counter),
                            !.counter = @ + 1]
    /\ UNCHANGED <<args_force, args_time_from_exif, disk, run, pc, glob_todo, seen,
                   eligible_files_not_renamed_paths, successfully_renamed_original_paths,
                   counters, rename_todo, chmod_todo, history>>

\* The branch the iteration takes with the name the loop ended with
LoopClass(temp_final_name, original_basename) ==
    IF temp_final_name = None THEN "skipped-collision-exhausted"
    ELSE IF temp_final_name = original_basename THEN "skipped-no-change-after-conflict"
    ELSE "planned"

\* The end of the while loop and the rest of the iteration (lines 363-372):
\* the loop is left by its condition (a name not taken), by the break of
\* line 354 (the file's own name) or by the break of line 361 (None)
ProbeExit ==
    /\ pc = "scan"
    /\ loop.active
    /\ \/ ~LoopCondition(loop.temp_final_name, DOMAIN seen, ExistingNames(disk))
       \/ loop.temp_final_name = loop.original_filepath
    /\ LET original_filepath == loop.original_filepath
           class == LoopClass(loop.temp_final_name, original_filepath)
       IN  /\ skipped_no_change_count' =
                  Bump(skipped_no_change_count, class = "skipped-no-change-after-conflict")
           /\ eligible_files_not_renamed_paths' =
                  NotRenamedAfterScan(eligible_files_not_renamed_paths, class,
                                      original_filepath)
           /\ seen' = IF class = "planned"
                      THEN (loop.temp_final_name :>
                               [old_name |-> original_filepath, src |-> loop.date_source]) @@ seen
                      ELSE seen
           /\ outcome' = IF class = "planned" THEN Classify(outcome, original_filepath, {})
                         ELSE IF class = "skipped-no-change-after-conflict"
                         THEN Classify(outcome, original_filepath, {"skipped-no-change"})
                         ELSE Classify(outcome, original_filepath, {class})
           /\ probe' = (original_filepath :>
                           [final_name |-> loop.final_name, claimed |-> DOMAIN seen,
                            result |-> loop.temp_final_name, counter |-> loop.counter]) @@ probe
           /\ resolved' = (original_filepath :>
                              [date |-> loop.file_date_str,
                               filename_to_process |-> loop.filename_to_process,
                               final_name |-> loop.final_name]) @@ resolved
    /\ loop' = NoLoop
    /\ UNCHANGED <<args_force, args_time_from_exif, disk, run, pc, glob_todo,
                   successfully_renamed_original_paths, scanned_files_count,
                   eligible_files_count, skipped_datestamped_no_force_count,
                   skipped_empty_after_strip_count, skipped_contains_date_no_force_count,
                   renamed_count, total_permissions_adjusted, rename_todo, chmod_todo,
                   scan_disk, rename_log, chmod_log, prev_run>>


(***************************************************************************)
(* Phase 2: the renames (lines 374-404)                                    *)
(***************************************************************************)
\* the keys of sorted(seen.items())
RECURSIVE SortedNames(_)
SortedNames(S) ==
    IF S = {} THEN << >>
    ELSE LET least == CHOOSE x \in S : \A y \in S \ {x} : StrLess(x, y)
         IN  <<least>> \o SortedNames(S \ {least})

\* try_remove_executable_bits(filepath) on directory D in the second t: the
\* directory after the call and the value returned
TryRemoveExecutableBits(D, filepath, t) ==
    IF ~Exists(D, filepath) THEN [disk |-> D, adjusted |-> FALSE]
    ELSE LET e == EntryNamed(D, filepath)
         IN  IF ~e.regular \/ ~e.xbits \/ e.immutable
             THEN [disk |-> D, adjusted |-> FALSE]
             ELSE [disk |-> (D \ {e}) \cup {[e EXCEPT !.xbits = FALSE, !.ctime = t]},
                   adjusted |-> TRUE]

\* os.rename(old_name, new_name) raises: no such source, a source that may
\* not be renamed, a target that may not be replaced, or a directory in the
\* way of a regular file
RenameRaises(D, old_name, new_name) ==
    \/ old_name \notin Names(D)
    \/ EntryNamed(D, old_name).immutable
    \/ /\ new_name \in Names(D)
       /\ \/ EntryNamed(D, new_name).immutable
          \/ ~EntryNamed(D, new_name).regular /\ ~EntryNamed(D, new_name).link

\* the directory after a successful os.rename in the second t: a regular
\* file or a link called new_name is replaced
AfterRename(D, old_name, new_name, t) ==
    LET e == EntryNamed(D, old_name)
    IN  { x \in D : x.name \notin {old_name, new_name} }
           \cup {[e EXCEPT !.name = new_name, !.ctime = t]}

\* RemainingRenames with the try around the loop instead of inside it
RemainingRenames_StopsAtFailure(todo, raises) == IF raises THEN << >> ELSE Tail(todo)

\* NotRenamedAfterRename without the add of the except branch
NotRenamedAfterRename_ForgetsFailure(paths, old_name, raises) == paths

\* What is left of sorted(seen.items()) after one iteration: the exception
\* of a failed rename is caught inside the loop
RemainingRenames(todo, raises) == Tail(todo)

\* eligible_files_not_renamed_paths after one iteration of the rename loop
NotRenamedAfterRename(paths, old_name, raises) ==
    IF raises THEN paths \cup {old_name} ELSE paths

\* ScanFinished with the rename loop entered before the scan loop is exhausted
ScanFinished_Early(todo) == TRUE

\* "for original_filepath in glob.glob('*')" has no entry left
ScanFinished(todo) == todo.eligible = << >> /\ todo.others = 0

\* The end of the scan loop: the scan summary, and the plan put in order
BeginExecute ==
    /\ pc = "scan"
    /\ ~loop.active
    /\ ScanFinished(glob_todo)
    /\ rename_todo' = SortedNames(DOMAIN seen)
    /\ pc' = "rename"
    /\ UNCHANGED <<args_force, args_time_from_exif, disk, run, glob_todo, seen,
                   eligible_files_not_renamed_paths, successfully_renamed_original_paths,
                   counters, chmod_todo, loop, history>>

\* One iteration of "for new_name, (old_name, _) in sorted(seen.items())"
RenameNext ==
    /\ pc = "rename"
    /\ rename_todo # << >>
    /\ \E t \in Clock(disk) :
       LET new_name == Head(rename_todo)
           old_name == seen[new_name].old_name
           raises == RenameRaises(disk, old_name, new_name)
           chmod == IF raises THEN [disk |-> disk, adjusted |-> FALSE]
                    ELSE TryRemoveExecutableBits(AfterRename(disk, old_name, new_name, t),
                                                 new_name, t)
       IN  /\ rename_todo' = RemainingRenames(rename_todo, raises)
           /\ rename_log' = Append(rename_log, [old |-> old_name, new |-> new_name,
                                                ok |-> ~raises,
                                                occupied |-> new_name \in Names(disk)])
           /\ IF raises
              THEN /\ outcome' = Classify(outcome, old_name, {"error"})
                   /\ UNCHANGED <<disk, renamed_count, successfully_renamed_original_paths,
                                  total_permissions_adjusted, chmod_log>>
              ELSE /\ disk' = chmod.disk
                   /\ renamed_count' = renamed_count + 1
                   /\ successfully_renamed_original_paths' =
                          successfully_renamed_original_paths \cup {old_name}
                   /\ total_permissions_adjusted' =
                          Bump(total_permissions_adjusted, chmod.adjusted)
                   /\ chmod_log' = Append(chmod_log, new_name)
                   /\ outcome' = Classify(outcome, old_name, {"renamed"})
           /\ eligible_files_not_renamed_paths' =
                  NotRenamedAfterRename(eligible_files_not_renamed_paths, old_name, raises)
    /\ UNCHANGED <<args_force, args_time_from_exif, run, pc, glob_todo, seen,
                   scanned_files_count, eligible_files_count,
                   skipped_datestamped_no_force_count, skipped_empty_after_strip_count,
                   skipped_contains_date_no_force_count, skipped_no_change_count,
                   chmod_todo, loop, scan_disk, resolved, probe, prev_run>>

(***************************************************************************)
(* Permissions of the files not renamed, and the summary (lines 406-429)   *)
(***************************************************************************)
\* final_paths_to_chmod_original
BeginChmod ==
    /\ pc = "rename"
    /\ rename_todo = << >>
    /\ chmod_todo' = eligible_files_not_renamed_paths \ successfully_renamed_original_paths
    /\ pc' = "chmod"
    /\ UNCHANGED <<args_force, args_time_from_exif, disk, run, glob_todo, seen,
                   eligible_files_not_renamed_paths, successfully_renamed_original_paths,
                   counters, rename_todo, loop, history>>

\* One iteration of "for path_to_chmod in final_paths_to_chmod_original";
\* a set is iterated in no particular order
ChmodNext ==
    /\ pc = "chmod"
    /\ \E path_to_chmod \in chmod_todo, t \in Clock(disk) :
          LET chmod == TryRemoveExecutableBits(disk, path_to_chmod, t)
          IN  /\ chmod_todo' = chmod_todo \ {path_to_chmod}
              /\ IF Exists(disk, path_to_chmod)
                 THEN /\ disk' = chmod.disk
                      /\ total_permissions_adjusted' =
                             Bump(total_permissions_adjusted, chmod.adjusted)
                      /\ chmod_log' = Append(chmod_log, path_to_chmod)
                 ELSE UNCHANGED <<disk, total_permissions_adjusted, chmod_log>>
    /\ UNCHANGED <<args_force, args_time_from_exif, run, pc, glob_todo, seen,
                   eligible_files_not_renamed_paths, successfully_renamed_original_paths,
                   scanned_files_count, eligible_files_count,
                   skipped_datestamped_no_force_count, skipped_empty_after_strip_count,
                   skipped_contains_date_no_force_count, skipped_no_change_count,
                   renamed_count, rename_todo, loop, scan_disk, outcome, resolved, probe,
                   rename_log, prev_run>>

\* The final summary: the run is over
Summary ==
    /\ pc = "chmod"
    /\ chmod_todo = {}
    /\ pc' = "done"
    /\ UNCHANGED <<args_force, args_time_from_exif, disk, run, glob_todo, seen,
                   eligible_files_not_renamed_paths, successfully_renamed_original_paths,
                   counters, rename_todo, chmod_todo, loop, history>>

\* The script is started again, with the same arguments, on the directory
\* the run before left
RunAgain ==
    /\ pc = "done"
    /\ run < MaxRuns
    /\ run' = run + 1
    /\ pc' = "scan"
    /\ prev_run' = [scan_disk |-> scan_disk, outcome |-> outcome, resolved |-> resolved]
    /\ glob_todo' \in Glob(disk)
    /\ seen' = FreshRun(disk).seen
    /\ eligible_files_not_renamed_paths' = FreshRun(disk).paths
    /\ successfully_renamed_original_paths' = FreshRun(disk).paths
    /\ scanned_files_count' = FreshRun(disk).count
    /\ eligible_files_count' = FreshRun(disk).count
    /\ skipped_datestamped_no_force_count' = FreshRun(disk).count
    /\ skipped_empty_after_strip_count' = FreshRun(disk).count
    /\ skipped_contains_date_no_force_count' = FreshRun(disk).count
    /\ skipped_no_change_count' = FreshRun(disk).count
    /\ renamed_count' = FreshRun(disk).count
    /\ total_permissions_adjusted' = FreshRun(disk).count
    /\ rename_todo' = FreshRun(disk).todo
    /\ chmod_todo' = FreshRun(disk).paths
    /\ loop' = NoLoop
    /\ scan_disk' = disk
    /\ outcome' = FreshRun(disk).map
    /\ resolved' = FreshRun(disk).map
    /\ probe' = FreshRun(disk).map
    /\ rename_log' = FreshRun(disk).log
    /\ chmod_log' = FreshRun(disk).log
    /\ UNCHANGED <<args_force, args_time_from_exif, disk>>

Next == Scan \/ ProbePass \/ ProbeExit \/ BeginExecute \/ RenameNext \/ BeginChmod \/ ChmodNext \/ Summary \/ RunAgain

Spec == Init /\ [][Next]_vars

SpecExif == InitExif /\ [][Next]_vars

SpecStamps == InitStamps /\ [][Next]_vars

\* Directories for the runs whose end is checked: the one where every counter
\* name is taken, and those made of a file to rename, a stale and a correct
\* stamp on the same target, a file that may not be renamed and a link
\* without a target
LiveIds == {2, 3, 4, 10, 17}

InitLive ==
    /\ args_force \in BOOLEAN
    /\ args_time_from_exif \in BOOLEAN
    /\ \/ \E D \in SUBSET { e \in Pool : e.id \in LiveIds } :
             /\ Cardinality(D) <= MaxFiles
             /\ DistinctNames(D)
             /\ disk = D
       \/ /\ disk = CrowdBase \cup Crowd(MaxAttempts)
          /\ ~args_force
          /\ ~args_time_from_exif
    /\ InitRun

\* The steps of a run other than the start of an iteration of the scan loop
LoopAndExecuteSteps ==
    ProbePass \/ ProbeExit \/ BeginExecute \/ RenameNext \/ BeginChmod \/ ChmodNext
       \/ Summary

\* ENABLED <<Scan>>_vars: the scan loop has an entry left and is not inside
\* the collision loop; an iteration always takes its entry out of glob_todo
ScanEnabled == pc = "scan" /\ ~loop.active /\ ~ScanFinished(glob_todo)

\* WF_vars(Scan), with ScanEnabled for ENABLED <<Scan>>_vars
ScanFairness == []<>(~ScanEnabled) \/ []<><<Scan>>_vars

\* main() is sequential code on one thread: a run that has a next step takes
\* it.  Nothing makes the user start the script again.
LiveSpec ==
    InitLive /\ [][Next]_vars /\ WF_vars(LoopAndExecuteSteps) /\ ScanFairness

TypeOK ==
    /\ pc \in {"scan", "rename", "chmod", "done"}
    /\ run \in 1..MaxRuns
    /\ DistinctNames(disk)


(***************************************************************************)
(* Properties                                                              *)
(***************************************************************************)
TerminalClasses == {"renamed", "skipped-correct-stamp", "skipped-contains-date",
                    "skipped-invalid-after-strip", "skipped-no-change",
                    "skipped-collision-exhausted", "error"}

\* the sources given a final name by the scan so far, and that name
Planned == { f \in DOMAIN probe : probe[f].result # None /\ probe[f].result # f }

\* the plan entries whose source is f
EntriesOf(f) == { k \in DOMAIN seen : seen[k].old_name = f }

Count(log, x) == Cardinality({ i \in 1..Len(log) : log[i] = x })

\* C1: Collision safety.  The final names given to distinct source files are
\* pairwise distinct, each source keeps its own plan entry, and no final name
\* is the name of a directory entry that existed when the name was chosen.
C1_CollisionSafety ==
    /\ \A f, g \in Planned : f # g => probe[f].result # probe[g].result
    /\ \A f \in Planned : EntriesOf(f) = {probe[f].result}
    /\ \A k \in DOMAIN seen : k \notin Names(scan_disk)

\* the eligible files that glob.glob("*") lists: those whose names do not
\* begin with a dot
ListedEligible == EligibleNames(Visible(scan_disk))

\* the files of eligible that the scan loop is not going to iterate, or has
\* iterated to the end
IteratedOf(eligible) ==
    eligible \ ({ glob_todo.eligible[i] : i \in DOMAIN glob_todo.eligible }
                   \cup IF loop.active THEN {loop.original_filepath} ELSE {})

\* the eligible files whose iteration of the scan loop is over
Iterated == IteratedOf(ListedEligible)

\* the files of eligible have one terminal classification each at the end of
\* a run and no other file has any; before any rename, each of them whose
\* iteration is over is either the source of exactly one plan entry or in the
\* not-renamed set, not both and not neither
ExactlyOneClassification(eligible) ==
    /\ DOMAIN outcome \subseteq eligible
    /\ pc = "done" =>
          \A f \in eligible :
             /\ f \in DOMAIN outcome
             /\ Cardinality(outcome[f]) = 1
             /\ outcome[f] \subseteq TerminalClasses
    /\ rename_log = << >> =>
          \A f \in IteratedOf(eligible) :
             /\ Cardinality(EntriesOf(f)) <= 1
             /\ (Cardinality(EntriesOf(f)) = 1) # (f \in eligible_files_not_renamed_paths)

\* C3 as stated: at the end of a run every regular file whose name matches
\* the extension list has exactly one terminal classification; after planning
\* each is the source of one plan entry or in the not-renamed set.
C3_ExactlyOneClassification_AsStated ==
    ExactlyOneClassification(EligibleNames(scan_disk))

\* C3, amended: Exactly one classification.  At the end of a run every
\* eligible file that glob lists has exactly one terminal classification and
\* no other file has any; before any rename, every such file already
\* iterated is either the source of exactly one plan entry or in the
\* not-renamed set, not both and not neither.  An eligible file whose name
\* begins with a dot has no classification.
C3_ExactlyOneClassification ==
    /\ ExactlyOneClassification(ListedEligible)
    /\ \A f \in EligibleNames(scan_disk) \ ListedEligible :
          f \notin DOMAIN outcome \cup eligible_files_not_renamed_paths /\ EntriesOf(f) = {}

\* A run ended with one file renamed and another whose rename failed or
\* whose collision probes were exhausted.
C3_Witness ==
    /\ pc = "done"
    /\ \E f, g \in DOMAIN outcome :
          /\ outcome[f] = {"renamed"}
          /\ outcome[g] \in {{"error"}, {"skipped-collision-exhausted"}}

\* C9: Failure isolation.  The renames are attempted in lexicographic order
\* of final name; after the rename loop every plan entry has been attempted
\* once, also those after a failed one; a failed source is in the not-renamed
\* set and not in the successfully-renamed set; renamed_count is the number
\* of renames that succeeded.
C9_FailureIsolation ==
    /\ \A i, j \in 1..Len(rename_log) : i < j => StrLess(rename_log[i].new, rename_log[j].new)
    /\ pc \in {"chmod", "done"} =>
          /\ { rename_log[i].new : i \in 1..Len(rename_log) } = DOMAIN seen
          /\ Len(rename_log) = Cardinality(DOMAIN seen)
    /\ \A i \in 1..Len(rename_log) :
          /\ seen[rename_log[i].new].old_name = rename_log[i].old
          /\ ~rename_log[i].ok =>
                /\ rename_log[i].old \in eligible_files_not_renamed_paths
                /\ rename_log[i].old \notin successfully_renamed_original_paths
          /\ rename_log[i].ok => rename_log[i].old \in successfully_renamed_original_paths
    /\ renamed_count = Cardinality({ i \in 1..Len(rename_log) : rename_log[i].ok })

\* A rename failed and a later plan entry was renamed after it.
C9_Witness ==
    \E i, j \in 1..Len(rename_log) : i < j /\ ~rename_log[i].ok /\ rename_log[j].ok

\* C10 as stated: at the end of a run every eligible file that was not
\* successfully renamed has been passed to try_remove_executable_bits exactly
\* once under its original name, and no successfully renamed file has been
\* passed to it under its original name.
C10_PermissionNormalizationOnce_AsStated ==
    pc = "done" =>
       \A f \in EligibleNames(scan_disk) :
          IF f \in successfully_renamed_original_paths
          THEN Count(chmod_log, f) = 0
          ELSE Count(chmod_log, f) = 1

\* C10, amended: Permission normalization exactly once.  At the end of a run
\* every eligible file that glob lists and that was not successfully renamed
\* has been passed to try_remove_executable_bits exactly once under its
\* original name if the name still exists, no successfully renamed file has
\* been passed to it under its original name, and an eligible file whose name
\* begins with a dot has not been passed to it.
C10_PermissionNormalizationOnce ==
    pc = "done" =>
       /\ \A f \in ListedEligible :
             IF f \in successfully_renamed_original_paths
             THEN Count(chmod_log, f) = 0
             ELSE Count(chmod_log, f) = IF Exists(disk, f) THEN 1 ELSE 0
       /\ \A f \in EligibleNames(scan_disk) \ ListedEligible : Count(chmod_log, f) = 0

\* A run ended in which one rename failed, its source being passed once
\* under its original name, and another succeeded.
C10_Witness ==
    /\ pc = "done"
    /\ \E i \in 1..Len(rename_log) : ~rename_log[i].ok /\ Count(chmod_log, rename_log[i].old) = 1
    /\ \E i \in 1..Len(rename_log) : rename_log[i].ok /\ Count(chmod_log, rename_log[i].old) = 0


(***************************************************************************)
(* The names the specification expects.  A name is split here at its last  *)
(* dot: what follows the dot is the extension, also when nothing precedes   *)
(* it.                                                                     *)
(***************************************************************************)
Expected_Split(name) ==
    LET dot == RFind(name, ".")
    IN  IF dot > 0
        THEN [stem |-> SubSeq(name, 1, dot - 1), ext |-> SubSeq(name, dot, Len(name))]
        ELSE [stem |-> name, ext |-> <<>>]

HasLeadingStamp(name) == STANDALONE_DATE_STAMP_REGEX(name)

\* the leading stamp is there and is not the resolved timestamp
HasStaleStamp(name, T) ==
    HasLeadingStamp(name) /\ TakeFirst(name, DATE_STAMP_LENGTH) # T

\* what is left of the name for normalization: the whole name, the name
\* without its correct stamp, or the name without its stale stamp and a
\* second stamp right after it
Expected_Remainder(name, T) ==
    IF ~HasLeadingStamp(name) THEN name
    ELSE IF HasStaleStamp(name, T) THEN StripLoop(name, 0, 0).temp_name
    ELSE StripOneStamp(name)

\* the normalized stem, "untitled" standing in for an empty one
Expected_Stem(remainder) ==
    LET parts == Expected_Split(remainder)
        stem == ProcessedNamePart(parts.stem)
    IN  IF stem # <<>> THEN stem
        ELSE IF parts.ext # <<>> THEN str_untitled ELSE str_untitled_file

\* T + '_' + normalized stem + normalized extension
Expected_Target(T, remainder) ==
    T \o <<"_">> \o Expected_Stem(remainder) \o ProcessedExtPart(Expected_Split(remainder).ext)

\* the files of the run that reached the assemble step
Assembled == { f \in DOMAIN resolved : resolved[f].final_name # None }

\* C4: Stale-stamp correction.  A file whose leading stamp differs from its
\* resolved timestamp T is never skipped as correct-stamp or contains-date,
\* and when its target T_<normalized remainder> is neither claimed nor on
\* disk it is planned under that name.
C4_StaleStampCorrection ==
    \A f \in DOMAIN resolved :
       (resolved[f].date # None /\ HasStaleStamp(f, resolved[f].date)) =>
          /\ outcome[f] \cap {"skipped-correct-stamp", "skipped-contains-date"} = {}
          /\ f \in DOMAIN probe
          /\ LET target == Expected_Target(resolved[f].date,
                                           Expected_Remainder(f, resolved[f].date))
             IN  (target \notin probe[f].claimed /\ target \notin Names(scan_disk))
                    => probe[f].result = target

\* C5: Extension normalization.  The candidate of every file that reaches
\* the assemble step is T + '_' + normalized stem + the original extension
\* lower-cased, .jpeg being .jpg.
C5_ExtensionNormalization ==
    \A f \in Assembled :
       resolved[f].final_name =
          resolved[f].date \o <<"_">> \o Expected_Stem(Expected_Remainder(f, resolved[f].date))
             \o ProcessedExtPart(Expected_Split(f).ext)

\* C6: Degenerate name.  When stripping the leading stamp and its underscore
\* leaves an extension and no stem, the candidate is T_untitled<ext>.
C6_DegenerateName ==
    \A f \in Assembled :
       LET rest == Expected_Split(Expected_Remainder(f, resolved[f].date))
       IN  (HasLeadingStamp(f) /\ rest.stem = <<>> /\ rest.ext # <<>>) =>
              resolved[f].final_name =
                 resolved[f].date \o <<"_">> \o str_untitled \o ProcessedExtPart(rest.ext)

\* the name is T + '_' + a normalized stem + a normalized extension
IsCanonicalFor(name, T) ==
    /\ StartsWith(name, T \o <<"_">>)
    /\ LET parts == Expected_Split(DropFirst(name, DATE_STAMP_LENGTH + 1))
       IN  /\ parts.stem # <<>>
           /\ parts.ext # <<>>
           /\ ProcessedNamePart(parts.stem) = parts.stem
           /\ ProcessedExtPart(parts.ext) = parts.ext

Canonical == { f \in DOMAIN resolved :
                 resolved[f].date # None /\ IsCanonicalFor(f, resolved[f].date) }

\* the file called f when the run started still has that name
KeepsName(f) ==
    /\ f \in Names(disk)
    /\ EntryNamed(disk, f).id = EntryNamed(scan_disk, f).id

\* C7 as stated: a file already named T_<normalized stem><normalized ext> is
\* classified skipped-no-change, is not planned and keeps its name.
C7_NoChangeGuard_AsStated ==
    \A f \in Canonical :
       /\ outcome[f] = {"skipped-no-change"}
       /\ EntriesOf(f) = {}
       /\ KeepsName(f)

\* C7, amended: a file already named T_<normalized stem><normalized ext> is
\* classified skipped-correct-stamp without force and skipped-no-change with
\* force; either way it is not planned and keeps its name.
C7_NoChangeGuard ==
    \A f \in Canonical :
       /\ outcome[f] = {IF args_force THEN "skipped-no-change" ELSE "skipped-correct-stamp"}
       /\ EntriesOf(f) = {}
       /\ KeepsName(f)

\* A forced run ended that classified an already canonical name as no change.
C7_Witness ==
    /\ pc = "done"
    /\ args_force
    /\ \E f \in Canonical : outcome[f] = {"skipped-no-change"}

\* the n-th name of the probe sequence: the candidate, then the candidate
\* with _n before its extension
ProbeName(candidate, n) ==
    IF n = 0 THEN candidate
    ELSE Expected_Split(candidate).stem \o <<"_">> \o IntToStr(n) \o Expected_Split(candidate).ext

\* the n-th probe of f was claimed or existed (as os.path.exists tells)
\* when f was resolved
ProbeTaken(f, n) ==
    \/ ProbeName(probe[f].final_name, n) \in probe[f].claimed
    \/ ProbeName(probe[f].final_name, n) \in ExistingNames(scan_disk)

\* the probe at which the resolution of f ends: a free name or f's own
ProbeEnds(f, n) == ~ProbeTaken(f, n) \/ ProbeName(probe[f].final_name, n) = f

\* C8 as stated: a file is collision-exhausted only when the candidate and
\* every suffixed name for n = 1 through 100 are taken.
C8_ProbeSequence_AsStated ==
    \A f \in DOMAIN probe :
       probe[f].result = None => \A n \in 0..MaxAttempts : ProbeTaken(f, n)

\* C8, amended: the resolver returns the first name of the probe sequence
\* candidate, _1, _2, ... that is neither claimed nor existing for
\* os.path.exists (or is the file's own name), and the
\* file is collision-exhausted exactly when the candidate and every suffixed
\* name for n = 1 through 99 are taken; _100 is never tested.
C8_ProbeSequence ==
    \A f \in DOMAIN probe :
       IF probe[f].result = probe[f].final_name THEN ProbeEnds(f, 0)
       ELSE LET ends == { n \in 0..(MaxAttempts - 1) : ProbeEnds(f, n) }
            IN  IF ends = {}
                THEN probe[f].result = None /\ outcome[f] = {"skipped-collision-exhausted"}
                ELSE /\ probe[f].result =
                           ProbeName(probe[f].final_name, CHOOSE n \in ends : \A m \in ends : n <= m)
                     /\ "skipped-collision-exhausted" \notin outcome[f]

\* A file was collision-exhausted while the name with _100 was free.
C8_Witness ==
    \E f \in DOMAIN probe : probe[f].result = None /\ ~ProbeTaken(f, MaxAttempts)

\* every eligible file of this run resolved to the timestamp it resolved to
\* in the run before
SameDates ==
    \A e \in scan_disk :
       e.name \in DOMAIN resolved =>
          /\ resolved[e.name].date # None
          /\ \E e0 \in prev_run.scan_disk :
                /\ e0.id = e.id
                /\ e0.name \in DOMAIN prev_run.resolved
                /\ prev_run.resolved[e0.name].date = resolved[e.name].date

\* the second of two runs without force has ended
SecondRunDone == run > 1 /\ pc = "done" /\ ~args_force /\ SameDates

\* the classes of a file that the run left under its name without a rename
\* being planned for it or after the rename planned for it failed
FailureClasses == {{"error"}, {"skipped-collision-exhausted"}}

\* the run before ended for f with a failed rename or with its collision
\* probes exhausted
FailedBefore(f) ==
    /\ f \in DOMAIN prev_run.outcome
    /\ prev_run.outcome[f] \in FailureClasses

ExhaustedAgain ==
    /\ SecondRunDone
    /\ \E f \in DOMAIN outcome :
          FailedBefore(f) /\ outcome[f] = {"skipped-collision-exhausted"}

\* A second run ended in which a file was skipped as containing its date.
ContainsDateAgain ==
    /\ SecondRunDone
    /\ \E f \in DOMAIN outcome : outcome[f] = {"skipped-contains-date"}



\* the eligible files whose os.lstat raised in this run
CtimeFailed == { f \in DOMAIN resolved : resolved[f].date = None }

\* no os.rename was called with f as its source
NeverRenameSource(f) == \A i \in 1..Len(rename_log) : rename_log[i].old # f

\* when the run has ended every eligible file has been scanned
ScanCompleted == pc = "done" => ListedEligible \subseteq DOMAIN outcome

\* C11 as stated: a file whose ctime read fails is classified error, never
\* planned and never renamed, and the run applies no rename and no permission
\* change to it, while the scan continues with the other files.
C11_CtimeFailure_AsStated ==
    /\ ScanCompleted
    /\ \A f \in CtimeFailed :
          /\ outcome[f] = {"error"}
          /\ EntriesOf(f) = {}
          /\ NeverRenameSource(f)
          /\ Count(chmod_log, f) = 0
          /\ f \in Names(disk)
          /\ EntryNamed(disk, f) = EntryNamed(scan_disk, f)

\* C11, amended: a file whose ctime read fails is classified error, never
\* planned and never renamed, and keeps its name, while the scan continues
\* with the other files; it is put in the not-renamed set, so it is passed
\* once to the permission normalization like every other file not renamed.
C11_CtimeFailure ==
    /\ ScanCompleted
    /\ \A f \in CtimeFailed :
          /\ outcome[f] = {"error"}
          /\ EntriesOf(f) = {}
          /\ NeverRenameSource(f)
          /\ KeepsName(f)
          /\ f \in eligible_files_not_renamed_paths
          /\ Count(chmod_log, f) <= 1
          /\ pc = "done" => Count(chmod_log, f) = 1

\* A run ended in which the ctime of one file could not be read, its execute
\* bits were cleared all the same, and another file was renamed.
C11_Witness ==
    /\ pc = "done"
    /\ renamed_count > 0
    /\ \E f \in CtimeFailed :
          /\ EntryNamed(scan_disk, f).xbits
          /\ ~EntryNamed(disk, f).xbits


\* something has been renamed or had its permissions changed in this run
ExecutionBegun == rename_log # << >> \/ chmod_log # << >> \/ disk # scan_disk

\* the scan loop is over, every file of eligible has been scanned, and the
\* plan holds the name resolved for every file that was given one
PlanComplete(eligible) ==
    /\ ScanFinished(glob_todo)
    /\ eligible \subseteq DOMAIN outcome
    /\ DOMAIN seen = { probe[f].result : f \in Planned }

\* C12 as stated: while files are being scanned the directory is as it was
\* when the run started and nothing has been renamed or chmod-ed; once
\* something has been, every regular file whose name matches the extension
\* list has been scanned and the plan is complete.
C12_TwoPhaseOrdering_AsStated ==
    /\ pc = "scan" => ~ExecutionBegun
    /\ ExecutionBegun => PlanComplete(EligibleNames(scan_disk))

\* C12, amended: Two-phase ordering.  While files are being scanned the
\* directory is as it was when the run started and nothing has been renamed
\* or chmod-ed; once something has been, every eligible file that glob lists
\* has been scanned and the plan is complete.  An eligible file whose name
\* begins with a dot is never scanned, before or after the first rename.
C12_TwoPhaseOrdering ==
    /\ pc = "scan" => ~ExecutionBegun
    /\ ExecutionBegun => PlanComplete(ListedEligible)
    /\ \A f \in EligibleNames(scan_disk) \ ListedEligible : f \notin DOMAIN outcome

\* A rename has been made after two eligible files were scanned.
C12_Witness ==
    /\ pc = "rename"
    /\ \E i \in 1..Len(rename_log) : rename_log[i].ok
    /\ Cardinality(DOMAIN outcome) >= 2


\* the timestamp of the first field, in the order XMP CreateDate, XMP
\* DateCreated, EXIF DateTimeOriginal, EXIF DateTimeDigitized, that parses
Expected_MetadataDate(img) ==
    LET parsed == << IF img.xmp_CreateDate = None THEN None
                     ELSE ParseXmpDate(Strip(img.xmp_CreateDate)),
                     IF img.photoshop_DateCreated = None THEN None
                     ELSE ParseXmpDate(Strip(img.photoshop_DateCreated)),
                     IF img.DateTimeOriginal = None THEN None
                     ELSE ParseExifDate(img.DateTimeOriginal),
                     IF img.DateTimeDigitized = None THEN None
                     ELSE ParseExifDate(img.DateTimeDigitized) >>
        found == { i \in 1..4 : parsed[i] # None }
    IN  IF ~img.opened \/ found = {} THEN None
        ELSE parsed[CHOOSE i \in found : \A j \in found : i <= j]

\* C13: Metadata fallback chain.  With -t the date of a file is the
\* timestamp of the first of XMP CreateDate/DateCreated, EXIF DateTimeOriginal
\* and EXIF DateTimeDigitized that parses, and the ctime only when none does.
C13_MetadataFallbackChain ==
    \A f \in DOMAIN resolved :
       LET e == EntryNamed(scan_disk, f)
           want == Expected_MetadataDate(e.exif)
       IN  args_time_from_exif =>
              IF want # None THEN resolved[f].date = want
              ELSE resolved[f].date \in {e.ctime, None}


\* the name without its first 19 characters and without one underscore
\* after them
WithoutOneStamp(name) ==
    LET rest == DropFirst(name, DATE_STAMP_LENGTH)
    IN  IF rest # <<>> /\ rest[1] = "_" THEN Tail(rest) ELSE rest

\* the files whose leading stamp is their resolved timestamp
CorrectlyStamped ==
    { f \in DOMAIN resolved :
         /\ resolved[f].date # None
         /\ HasLeadingStamp(f)
         /\ TakeFirst(f, DATE_STAMP_LENGTH) = resolved[f].date }

\* C14: Correct leading stamp.  Without force the file is classified
\* skipped-correct-stamp and not planned; with force that one stamp and at
\* most one underscore after it are removed, a second stamp is kept, and the
\* remainder is normalized.
C14_CorrectLeadingStamp ==
    \A f \in CorrectlyStamped :
       IF ~args_force
       THEN /\ outcome[f] = {"skipped-correct-stamp"}
            /\ EntriesOf(f) = {}
            /\ f \notin DOMAIN probe
            /\ resolved[f].final_name = None
       ELSE /\ resolved[f].filename_to_process = WithoutOneStamp(f)
            /\ resolved[f].final_name = TentativeName(resolved[f].date, WithoutOneStamp(f))
            /\ "skipped-correct-stamp" \notin outcome[f]

\* With force, a correct stamp was removed from a name that goes on with a
\* second stamp, and the second stamp is in the candidate.
C14_Witness ==
    /\ args_force
    /\ \E f \in CorrectlyStamped :
          /\ HasLeadingStamp(WithoutOneStamp(f))
          /\ TakeFirst(WithoutOneStamp(f), DATE_STAMP_LENGTH) # resolved[f].date
          /\ resolved[f].filename_to_process = WithoutOneStamp(f)
          /\ Contains(resolved[f].final_name, TakeFirst(WithoutOneStamp(f), DATE_STAMP_LENGTH))


\* the files with a resolved timestamp and no stamp at the start of the name
NotStamped == { f \in DOMAIN resolved : resolved[f].date # None /\ ~HasLeadingStamp(f) }

\* C15: Contains-date skip.  A file without a leading stamp whose name
\* contains its resolved timestamp is classified skipped-contains-date when
\* force is off and is processed with its whole name when force is on; a name
\* that does not contain it is processed whole, and a file with a leading
\* stamp is never classified skipped-contains-date.
C15_ContainsDateSkip ==
    /\ \A f \in NotStamped :
          IF Contains(f, resolved[f].date) /\ ~args_force
          THEN /\ outcome[f] = {"skipped-contains-date"}
               /\ EntriesOf(f) = {}
               /\ resolved[f].final_name = None
          ELSE /\ resolved[f].filename_to_process = f
               /\ resolved[f].final_name = TentativeName(resolved[f].date, f)
               /\ "skipped-contains-date" \notin outcome[f]
    /\ \A f \in DOMAIN resolved :
          HasLeadingStamp(f) => "skipped-contains-date" \notin outcome[f]

\* Without force a run ended that skipped a file without leading stamp for
\* the date in its name.
C15_Witness ==
    /\ pc = "done"
    /\ ~args_force
    /\ \E f \in NotStamped : outcome[f] = {"skipped-contains-date"}


\* the name without its leading stamp and without the stamp that then leads
WithoutTwoStamps(name) ==
    IF HasLeadingStamp(WithoutOneStamp(name))
    THEN WithoutOneStamp(WithoutOneStamp(name))
    ELSE WithoutOneStamp(name)

StaleStamped ==
    { f \in DOMAIN resolved : resolved[f].date # None /\ HasStaleStamp(f, resolved[f].date) }

\* C16: Bounded double strip.  From a name with a stale leading stamp the
\* stamp is removed, and a second one when the remainder starts with it,
\* also when it is the resolved timestamp; each goes with at most one
\* underscore, and a third stamp stays in the remainder.
C16_BoundedDoubleStrip ==
    \A f \in StaleStamped :
       /\ resolved[f].filename_to_process = WithoutTwoStamps(f)
       /\ resolved[f].final_name = TentativeName(resolved[f].date, WithoutTwoStamps(f))

\* Two stale stamps were removed from a name and the third one, the resolved
\* timestamp itself, is what the remainder starts with.
C16_Witness ==
    \E f \in StaleStamped :
       /\ HasLeadingStamp(WithoutOneStamp(f))
       /\ HasLeadingStamp(resolved[f].filename_to_process)
       /\ TakeFirst(resolved[f].filename_to_process, DATE_STAMP_LENGTH) = resolved[f].date
       /\ f \in Planned


\* The self-collision exit of the probe loop (line 354) is never taken: a
\* candidate equal to the file's own name is stopped by the no-op guard
\* before the loop, and every later probe differs from the name.
SelfCollisionNeverProbed ==
    /\ \A f \in DOMAIN probe :
          /\ probe[f].result # f
          /\ \A n \in 0..MaxAttempts : ProbeName(probe[f].final_name, n) # f
    /\ \A f \in DOMAIN outcome :
          "skipped-no-change" \in outcome[f] => f \notin DOMAIN probe

\* the number of names the collision loop of f tested: the counter it ended
\* with, less the pass that gave up
ProbeCount(f) ==
    IF probe[f].result = None THEN probe[f].counter - 1 ELSE probe[f].counter

\* C18: Termination.  The collision loop of a file makes no more than
\* MaxAttempts probes and ends with a name that is not claimed and does not
\* exist, with the file's own name or with exhaustion, and every run reaches
\* its final summary.
C18_Termination ==
    /\ [](loop.counter <= MaxAttempts + 1)
    /\ [](\A f \in DOMAIN probe :
             /\ ProbeCount(f) <= MaxAttempts
             /\ \/ probe[f].result = None
                \/ probe[f].result = f
                \/ /\ probe[f].result \notin probe[f].claimed
                   /\ probe[f].result \notin ExistingNames(scan_disk))
    /\ []<>(pc = "done")

\* A run reached its summary after a collision loop that gave up and one
\* that found a free name.
C18_Witness ==
    /\ pc = "done"
    /\ \E f, g \in DOMAIN probe :
          /\ probe[f].result = None /\ probe[f].counter = MaxAttempts + 1
          /\ probe[g].result \notin {None, g}

\* the entry of directory D that is the file with this id
EntryWithId(D, id) == { x \in D : x.id = id }

\* C19: No overwrite.  No rename of the execute phase targets a name that is
\* occupied when it is made; the directory has as many entries as when the
\* run started, and every entry it had then is still there once, under its
\* original name or under the final name planned for it.
C19_NoOverwrite ==
    /\ \A i \in 1..Len(rename_log) : ~rename_log[i].occupied
    /\ Cardinality(disk) = Cardinality(scan_disk)
    /\ \A e \in scan_disk :
          /\ Cardinality(EntryWithId(disk, e.id)) = 1
          /\ \A x \in EntryWithId(disk, e.id) :
                \/ x.name = e.name
                \/ x.name \in EntriesOf(e.name)
    /\ DistinctNames(disk)

\* C20: Stamp prefix invariant.  Every key of the rename plan, also one made
\* by the collision counter, begins with the resolved timestamp of its source
\* and an underscore.
C20_StampPrefix ==
    \A k \in DOMAIN seen :
       /\ seen[k].old_name \in DOMAIN resolved
       /\ StartsWith(k, resolved[seen[k].old_name].date \o <<"_">>)

====
